---- MODULE Spec2Model ----
(***************************************************************************)
(* A model of the krustlet supervisor, Kubelet::start, of its service      *)
(* tasks, of the pod informer and of the pod queue the informer feeds.     *)
(*                                                                         *)
(* All futures created by Kubelet::start are polled by one task            *)
(* (tokio::select! and tokio::try_join! poll their branches in place), so  *)
(* a step of the model is the code one future runs between two .await      *)
(* points.  The pod runners are tasks of their own.  The shutdown flag is  *)
(* an atomic that the runners read, so each store to it is a step.         *)
(***************************************************************************)
EXTENDS Naturals, Integers, Sequences, FiniteSets, TLC

\* The number of events the watch stream delivers before the model stops it.
MaxEvents == 2

\* The number of SIGINTs delivered after the first that the model follows.
MaxSigints == 2

\* The ports the waSCC provider hands out are 1..MaxPorts.
MaxPorts == 2

\* The number of PodStates the model drops for one key.
MaxDrops == 2

\* The number of log requests the model follows.
MaxLogs == 2

\* The number of Repository objects in the cluster is at most MaxRepos.
MaxRepos == 2

\* The number of volumes of a waSCC pod is at most MaxVolumes.
MaxVolumes == 2

\* The number of calls of ActorHandle::stop the model follows.
MaxStops == 2

\* The pods of the node: PodKey = (namespace, name).
PodKeys == {"A", "B", "C"}

\* The four futures of the services select, kubelet.rs 85-96.
\* The pods the waSCC provider runs.
WasccKeys == {"A", "B"}

Ports == 1..MaxPorts

ServiceTasks == {"signal_task", "webserver", "node_updater", "registrar"}

Results == {"ok", "err"}

VARIABLES
    node_created, \* node::create has completed (kubelet.rs 63)
    signal,       \* the shutdown flag, Arc<AtomicBool> (kubelet.rs 66)
    exited,       \* the service tasks that have completed
    svc_pc,       \* the services future: "select" | "store" | "done"
    nu_pc,        \* start_node_updater: "update" | "delay" | "stopped"
    hs_pc,        \* start_signal_handler: "poll" | "drain" | "done"
    drains,       \* number of calls of node::drain
    late_sigints, \* SIGINTs delivered after the services select has completed
    core_res,     \* the core future: "pending" | "ok" | "err"
    inf_pc,       \* start_pod_informer: "loop" | "done"
    nread,        \* number of events read from the watch stream
    lastRead,     \* the kind of the event read last, and the flag's value then
    inflight,     \* events handed to the queue whose call is being awaited
    lastQueue,    \* result of the queue call for the event read last, or "none"
    pod,          \* the pod of the Stackable state machine: what next() reads of it
    state,        \* the current state of that pod's state machine
    trans,        \* the Transition its last next() returned, and the state it left
    complete,     \* "none", or the result of Transition::Complete
    installed,    \* the package's directory exists under parcel_directory
    last_install, \* what the last Installing::next did: "none" | "skipped" | "ok" | "err"
    child,        \* the process of Running: "none" | "running" | "exited"
    changed,      \* pod_changed has been notified and not yet consumed
    terminating,  \* termination of the pod has been requested
    data,         \* the field of the current state: its package or its message
    run_pc,       \* Running::next: "drain" | "wait", "none" in another state
    late,         \* pod_changed was signalled after Running::next had started
    handlers,     \* Queue: PodKey -> id of the runner it routes to, 0 if none
    runners,      \* the live pod runners
    main_pc,      \* main: "client" | "provider" | "kubelet" | "start" | "panicked"
    provider,     \* the Provider the Kubelet is instantiated with
    found,        \* the CRDs whose look-up succeeds
    provider_new, \* the result of StackableProvider::new, NoResult before it
    node,         \* the node object node::create has built, NoNode before it
    port_map,     \* waSCC SharedPodState.port_map: port -> PodKey, NoKey if free
    handles,      \* waSCC SharedPodState.handles: the keys that have a Handle
    pod_pc,       \* per key, its waSCC PodState: "none" | "live" | "handles"
    drops,        \* per key, the number of completed async_drop calls
    dropped,      \* the Stackable PodState has been dropped
    log_requests, \* number of calls of Provider::logs
    last_log,     \* the pod and the result of the last call of Provider::logs
    repos,        \* find_repository: the Repository objects of the cluster, in list order
    reference,    \* find_repository: repository_reference, 0 for None, else a name
    list_ok,      \* find_repository: repositories.list returns Ok
    package,      \* find_repository: the package looked for
    find_pc,      \* find_repository: "idle" | "call" | "done"
    find_result,  \* find_repository: its result and the repositories it examined
    actor,        \* wascc_run: the actor of the WASM bytes, its capabilities, whether it loads
    w_volumes,    \* wascc_run: its argument volumes, the names of the bindings
    w_pc,         \* wascc_run: "idle" | "load" | "fs" | "add" | "bind" | "done"
    w_i,          \* wascc_run: the index the loop at w_pc has reached
    capabilities, \* wascc_run: its local list of Capability, as <<name, binding>>
    host,         \* the waSCC Host: its actors, native capabilities and bindings
    w_result,     \* wascc_run: "none" | "Ok" | "Err"
    handle,       \* the ActorHandle wascc_run returned, NoHandle if none
    stops,        \* number of calls of ActorHandle::stop
    stop_result   \* the result of the last stop, and the removals it attempted

vars == <<node_created, signal, exited, svc_pc, nu_pc, hs_pc, drains,
          late_sigints, core_res, inf_pc, nread, lastRead, inflight, lastQueue,
          handlers, runners, pod, state, trans, complete, installed,
          last_install, child,
          changed, terminating, data, run_pc, late, main_pc, provider, found,
          provider_new, node, port_map, handles, pod_pc, drops, dropped,
          log_requests, last_log, repos, reference, list_ok, package, find_pc,
          find_result, actor, w_volumes, w_pc, w_i, capabilities, host, w_result,
          handle, stops, stop_result>>

shutdownVars == <<drains, late_sigints>>
supervisorVars == <<node_created, signal, exited, svc_pc, nu_pc, hs_pc, core_res,
                    shutdownVars>>
informerVars == <<inf_pc, nread, lastRead, inflight, lastQueue>>
providerVars == <<pod, state, trans, complete, installed, last_install, child, changed,
                  terminating, data, run_pc, late>>
queueVars == <<handlers, runners>>
mainVars == <<main_pc, provider, found, provider_new>>
wasccVars == <<port_map, handles, pod_pc, drops>>
logVars == <<log_requests, last_log>>
findVars == <<repos, reference, list_ok, package, find_pc, find_result>>
hostVars == <<actor, w_volumes, w_pc, w_i, capabilities, host, w_result, handle,
              stops, stop_result>>
unitVars == <<findVars, hostVars>>
podVars == <<wasccVars, logVars, dropped, unitVars>>

----------------------------------------------------------------------------
(* Watch events, kube_runtime::watcher::Event *)

NoKey == "-"

AppliedEv(k, n) == [type |-> "Applied", key |-> k, pods |-> {}, seq |-> n]
DeletedEv(k, n) == [type |-> "Deleted", key |-> k, pods |-> {}, seq |-> n]
RestartedEv(L, n) == [type |-> "Restarted", key |-> NoKey, pods |-> L, seq |-> n]

\* The events the stream can deliver as its n-th event.
EventInputs(n) ==
    {AppliedEv(k, n) : k \in PodKeys} \cup {DeletedEv(k, n) : k \in PodKeys}
        \cup {RestartedEv(L, n) : L \in SUBSET PodKeys}

----------------------------------------------------------------------------
(* Kubelet::start: the two task groups and their join *)

\* A start that also waits for the node updater, as if services joined its
\* four futures.
StartResultJoiningServices ==
    IF core_res = "err" THEN "err"
    ELSE IF core_res = "ok" /\ svc_pc = "done" /\ "node_updater" \in exited
         THEN "ok"
    ELSE "pending"

\* tokio::try_join!(core, services): an error of core returns at once,
\* otherwise start returns when both have completed.
StartResult ==
    IF core_res = "err" THEN "err"
    ELSE IF core_res = "ok" /\ svc_pc = "done" THEN "ok"
    ELSE "pending"

\* A start whose futures are polled while node::create is still awaited.
StartPolledBeforeNode == StartResult = "pending" /\ svc_pc # "store"

\* The task of Kubelet::start is between two of its polls: node::create has
\* returned, start has not, and the services future is not between its
\* select and its store.
StartPolled == node_created /\ StartResult = "pending" /\ svc_pc # "store"

ServicesPolled == StartPolled /\ svc_pc = "select"

CorePolled == StartPolled /\ core_res = "pending"

\* A select that has lost the arm of the registrar.
SelectArmsWithoutRegistrar == ServiceTasks \ {"registrar"}

\* The futures the services select polls (kubelet.rs 86, 89, 90, 93).
SelectArms == ServiceTasks

\* A store that clears the flag.
StoreValueCleared == FALSE

\* The value the services future stores into the flag (kubelet.rs 98).
StoreValue == TRUE

\* A node updater spawned as a task of its own, which the select's end
\* does not stop.
UpdaterKeptAfterSelect(pc) == pc

\* kubelet.rs 79-97: the node updater is an arm of the services select; when
\* another arm completes the select, its future is polled no more.
UpdaterAfterSelect(pc) == "stopped"

----------------------------------------------------------------------------
(* main of krustlet-stackable, the providers' constructors and their node  *)
(* customization                                                           *)

\* The implementations of Provider in the repository.
Providers == {"stackable", "wascc"}

\* The CRDs the Stackable provider requires, lib.rs 23.
CRDS == <<"repositories.stable.stackable.de">>

CrdSet == {CRDS[i] : i \in DOMAIN CRDS}

NoResult == [kind |-> "none", missing_crds |-> <<>>]

\* check_crds: the CRDs of crds, in their order, whose look-up fails; f is the
\* set of CRDs whose look-up returns Ok.
RECURSIVE check_crds(_, _)
check_crds(crds, f) ==
    IF crds = <<>> THEN <<>>
    ELSE (IF Head(crds) \in f THEN <<>> ELSE <<Head(crds)>>)
         \o check_crds(Tail(crds), f)

\* A constructor that does not look at the list of missing CRDs.
StackableProviderNewUnchecked(f) == [kind |-> "Ok", missing_crds |-> <<>>]

\* StackableProvider::new: Ok iff check_crds returns the empty list.
StackableProviderNew(f) ==
    IF check_crds(CRDS, f) = <<>>
    THEN [kind |-> "Ok", missing_crds |-> <<>>]
    ELSE [kind |-> "CrdMissing", missing_crds |-> check_crds(CRDS, f)]

\* Provider::ARCH: lib.rs 88 of the Stackable provider, lib.rs 64 and 268 of
\* the waSCC provider.
ARCH(p) == IF p = "stackable" THEN "stackable-linux" ELSE "wasm32-wascc"

Taint(effect, key, value) == [effect |-> effect, key |-> key, value |-> value]

NoNode == [architecture |-> "none", taints |-> {}]

\* Provider::node: what the provider sets on the node builder.
ProviderNode(p) ==
    [architecture |-> IF p = "stackable" THEN ARCH(p) ELSE "wasm-wasi",
     taints |-> {Taint("NoSchedule", "kubernetes.io/arch", ARCH(p)),
                 Taint("NoExecute", "kubernetes.io/arch", ARCH(p))}]

\* KubeConfig::from_kubeconfig(..).await.expect(..): an Err panics.
ClientNew(res) ==
    /\ main_pc = "client"
    /\ main_pc' = IF res = "ok" THEN "provider" ELSE "panicked"
    /\ UNCHANGED <<provider, found, provider_new, node, podVars>>
    /\ UNCHANGED <<supervisorVars, informerVars, queueVars, providerVars>>

\* StackableProvider::new(..).await.expect(..): an Err panics.
ProviderNew ==
    /\ main_pc = "provider"
    /\ provider_new' = StackableProviderNew(found)
    /\ main_pc' = IF provider_new'.kind = "Ok" THEN "kubelet" ELSE "panicked"
    /\ UNCHANGED <<provider, found, node, podVars>>
    /\ UNCHANGED <<supervisorVars, informerVars, queueVars, providerVars>>

\* Kubelet::new(..).await?, which returns Ok, and then kubelet.start().
KubeletNew ==
    /\ main_pc = "kubelet"
    /\ main_pc' = "start"
    /\ UNCHANGED <<provider, found, provider_new, node, podVars>>
    /\ UNCHANGED <<supervisorVars, informerVars, queueVars, providerVars>>

\* node::create(...).await, before any future of start is created.
NodeCreate ==
    /\ main_pc = "start"
    /\ ~node_created
    /\ node_created' = TRUE
    /\ node' = ProviderNode(provider)
    /\ UNCHANGED <<signal, exited, svc_pc, nu_pc, hs_pc, core_res>>
    /\ UNCHANGED shutdownVars
    /\ UNCHANGED informerVars
    /\ UNCHANGED <<providerVars, mainVars, podVars>>
    /\ UNCHANGED queueVars

\* Service task t completes with res, which the select only logs; the select,
\* if t is one of its arms, completes in the same poll, the services future
\* goes on to its store and the other arms are polled no more.
ArmCompletes(t, res) ==
    /\ ServicesPolled
    /\ t \notin exited
    /\ res \in Results
    /\ exited' = exited \cup {t}
    /\ svc_pc' = IF t \in SelectArms THEN "store" ELSE svc_pc
    /\ nu_pc' = IF t \in SelectArms THEN UpdaterAfterSelect(nu_pc) ELSE nu_pc
    /\ UNCHANGED <<node_created, hs_pc, core_res>>
    /\ UNCHANGED shutdownVars
    /\ UNCHANGED informerVars
    /\ UNCHANGED <<providerVars, mainVars, node, podVars>>
    /\ UNCHANGED queueVars

\* start_signal_task: ctrl_c() resolves, the task stores the flag and returns Ok.
Sigint ==
    /\ ArmCompletes("signal_task", "ok")
    /\ signal' = TRUE

\* start_signal_task: ctrl_c().await? fails, the task returns the error.
CtrlCError ==
    /\ ArmCompletes("signal_task", "err")
    /\ UNCHANGED signal

\* The webserver future completes, with either result.
WebserverExits ==
    \E res \in Results :
        /\ ArmCompletes("webserver", res)
        /\ UNCHANGED signal

\* The plugin registrar future completes, with either result.
RegistrarExits ==
    \E res \in Results :
        /\ ArmCompletes("registrar", res)
        /\ UNCHANGED signal

\* A renewal loop that gives up when a renewal has failed.
UpdaterExitsOnFailure(res) == res = "err"

\* kubelet.rs 211-214: the loop has no break and the outcome of node::update
\* is not looked at.
UpdaterExitsOn(res) == FALSE

\* start_node_updater: node::update, whatever its outcome, then a 10 s delay,
\* then the next turn of the loop.
NodeUpdaterStep ==
    /\ StartPolled
    /\ nu_pc \in {"update", "delay"}
    /\ \E res \in Results :
        IF nu_pc = "update" /\ UpdaterExitsOn(res)
        THEN /\ exited' = exited \cup {"node_updater"}
             /\ svc_pc' = "store"
             /\ nu_pc' = "stopped"
        ELSE /\ nu_pc' = IF nu_pc = "update" THEN "delay" ELSE "update"
             /\ UNCHANGED <<exited, svc_pc>>
    /\ UNCHANGED <<node_created, signal, hs_pc, core_res>>
    /\ UNCHANGED shutdownVars
    /\ UNCHANGED informerVars
    /\ UNCHANGED <<providerVars, mainVars, node, podVars>>
    /\ UNCHANGED queueVars

\* The services future after its select: signal.store(true), then Ok(()).
ServicesStore ==
    /\ node_created
    /\ svc_pc = "store"
    /\ signal' = StoreValue
    /\ svc_pc' = "done"
    /\ UNCHANGED <<node_created, exited, nu_pc, hs_pc, core_res>>
    /\ UNCHANGED shutdownVars
    /\ UNCHANGED informerVars
    /\ UNCHANGED <<providerVars, mainVars, node, podVars>>
    /\ UNCHANGED queueVars

\* node::drain has been called by start_signal_handler.
DrainCalled == hs_pc \in {"drain", "done"}

\* A handler that drains whatever it has read.
DrainsUnconditionally(flag) == TRUE

\* kubelet.rs 225: if signal.load(Ordering::Relaxed), for the value read.
DrainsOn(flag) == flag

\* start_signal_handler: one turn of its loop. With the flag set it calls
\* node::drain; otherwise it sleeps 100 ms and polls again.
HandlerPoll ==
    /\ CorePolled
    /\ hs_pc = "poll"
    /\ hs_pc' = IF DrainsOn(signal) THEN "drain" ELSE "poll"
    /\ drains' = IF DrainsOn(signal) THEN drains + 1 ELSE drains
    /\ UNCHANGED <<node_created, signal, exited, svc_pc, nu_pc, core_res>>
    /\ UNCHANGED late_sigints
    /\ UNCHANGED informerVars
    /\ UNCHANGED <<providerVars, mainVars, node, podVars>>
    /\ UNCHANGED queueVars

\* A handler that goes on polling after a drain.
PollsOnAfterDrain == "poll"

\* kubelet.rs 228: break Ok(()) after the drain.
AfterDrain == "done"

\* node::drain returns: an error leaves the handler through ?, Ok through the
\* break; the handler returns the result, and so does the core select.
DrainReturns ==
    /\ CorePolled
    /\ hs_pc = "drain"
    /\ \E res \in Results :
        /\ hs_pc' = IF res = "err" THEN "done" ELSE AfterDrain
        /\ core_res' = IF hs_pc' = "done" THEN res ELSE core_res
    /\ UNCHANGED <<node_created, signal, exited, svc_pc, nu_pc>>
    /\ UNCHANGED shutdownVars
    /\ UNCHANGED informerVars
    /\ UNCHANGED <<providerVars, mainVars, node, podVars>>
    /\ UNCHANGED queueVars

\* A further SIGINT: ctrl_c() has resolved or its future is polled no more,
\* so nothing of start takes notice.
SigintRepeated ==
    /\ node_created
    /\ StartResult = "pending"
    /\ svc_pc # "select"
    /\ late_sigints < MaxSigints
    /\ late_sigints' = late_sigints + 1
    /\ UNCHANGED <<node_created, signal, exited, svc_pc, nu_pc, hs_pc, core_res, drains>>
    /\ UNCHANGED informerVars
    /\ UNCHANGED <<providerVars, mainVars, node, podVars>>
    /\ UNCHANGED queueVars

----------------------------------------------------------------------------
(* The pod queue, crate::pod::Queue, and the pod runners *)

NoHandlers == [k \in PodKeys |-> 0]

\* A runner started for pod k by event ev, which is its first snapshot.
Spawn(k, ev) ==
    [key |-> k, id |-> ev.seq, st |-> "running", q |-> <<>>]

\* What a channel holds of an event: its kind and its place in the stream.
Msg(type, n) == [type |-> type, seq |-> n]

\* Event e sent on the channel of runner (k, id).
Send(rs, k, id, e) ==
    {IF r.key = k /\ r.id = id
     THEN [r EXCEPT !.q = Append(@, Msg(e.type, e.seq))] ELSE r : r \in rs}

\* Queue::enqueue: route one event to its pod's channel; the first Applied of
\* a key creates the channel and starts the runner.
Enqueue(h, rs, ev) ==
    CASE ev.type = "Applied" ->
            IF h[ev.key] = 0
            THEN [h |-> [h EXCEPT ![ev.key] = ev.seq],
                  r |-> rs \cup {Spawn(ev.key, ev)}]
            ELSE [h |-> h, r |-> Send(rs, ev.key, h[ev.key], ev)]
      [] ev.type = "Deleted" ->
            IF h[ev.key] = 0
            THEN [h |-> h, r |-> rs]
            ELSE [h |-> h, r |-> Send(rs, ev.key, h[ev.key], ev)]
      [] OTHER -> [h |-> h, r |-> rs]

\* Queue::resync: a Deleted for every known pod that is not in the list, a
\* runner for every pod of the list that is not known, and the Applied of the
\* list for the known ones.
Resync(h, rs, ev) ==
    LET L == ev.pods
        routed(r) == h[r.key] = r.id
    IN  [h |-> [k \in PodKeys |-> IF k \in L /\ h[k] = 0 THEN ev.seq ELSE h[k]],
         r |-> {IF routed(r)
                THEN [r EXCEPT !.q = Append(@, IF r.key \in L
                                               THEN Msg("Applied", ev.seq)
                                               ELSE Msg("Deleted", ev.seq))]
                ELSE r : r \in rs}
               \cup {Spawn(k, ev) : k \in {x \in L : h[x] = 0}}]

\* The runner's event intake: take the next event of the channel. Applied
\* replaces the snapshot, Deleted requests termination.
RunnerIntake ==
    /\ StartResult = "pending"
    /\ \E r \in runners :
        /\ r.q # <<>>
        /\ runners' = (runners \ {r}) \cup
              {[r EXCEPT !.q = Tail(@),
                         !.st = IF Head(r.q).type = "Deleted"
                                THEN "terminating" ELSE @]}
    /\ UNCHANGED handlers
    /\ UNCHANGED supervisorVars
    /\ UNCHANGED informerVars
    /\ UNCHANGED <<providerVars, mainVars, node, podVars>>

\* The runner reads the shutdown flag set: termination is requested.
RunnerObservesShutdown ==
    /\ StartResult = "pending"
    /\ signal
    /\ \E r \in runners :
        /\ r.st = "running"
        /\ runners' = (runners \ {r}) \cup {[r EXCEPT !.st = "terminating"]}
    /\ UNCHANGED handlers
    /\ UNCHANGED supervisorVars
    /\ UNCHANGED informerVars
    /\ UNCHANGED <<providerVars, mainVars, node, podVars>>

\* The runner leaves: its entry of the map is removed if it is still its own.
Leave(r) ==
    /\ runners' = runners \ {r}
    /\ handlers' = IF handlers[r.key] = r.id
                   THEN [handlers EXCEPT ![r.key] = 0] ELSE handlers
    /\ UNCHANGED supervisorVars
    /\ UNCHANGED informerVars
    /\ UNCHANGED <<providerVars, mainVars, node, podVars>>

\* A runner whose termination was requested reaches the terminated state,
\* the kernel exits, async_drop runs and the channel is torn down.
RunnerExit ==
    /\ StartResult = "pending"
    /\ \E r \in runners : r.st = "terminating" /\ Leave(r)

\* The state machine of a runner completes by itself (Complete(Ok) or Err).
RunnerCompletes ==
    /\ StartResult = "pending"
    /\ \E r \in runners : r.st = "running" /\ Leave(r)

----------------------------------------------------------------------------
(* start_pod_informer *)

\* A filter without the test of the flag.
NeverDrop(ev) == FALSE

\* A filter without the test of the event's kind.
DropAnyWhileDraining(ev) == signal

\* A filter that lets only Restarted through while the flag is set.
DropUnlessRestarted(ev) == ev.type # "Restarted" /\ signal

\* kubelet.rs 182-187: an Applied event is dropped when the flag is set.
ShouldDrop(ev) == ev.type = "Applied" /\ signal

\* A dispatch without the branch for Restarted.
AlwaysEnqueue(ev) == "enqueue"

\* kubelet.rs 188-200: the queue operation an event is handed to.
QueueOp(ev) == IF ev.type = "Restarted" THEN "resync" ELSE "enqueue"

\* A loop that does not wait for the queue call before it reads on.
NotAwaited == TRUE

\* kubelet.rs 191, 196: the queue call is awaited before the next try_next.
QueueCallAwaited == inflight = {}

\* A queue made anew for every event: it knows no pod.
FreshQueueHandlers == NoHandlers

\* kubelet.rs 112, 168: the one Queue, created once and moved into the
\* informer, whose map every event is dispatched against.
QueueHandlers == handlers

\* informer.try_next() yields Ok(Some(event)): the event is dropped, or
\* handed to queue.resync or queue.enqueue, whose future is then awaited.
InformerRead ==
    /\ CorePolled
    /\ inf_pc = "loop"
    /\ QueueCallAwaited
    /\ nread < MaxEvents
    /\ \E ev \in EventInputs(nread + 1) :
        /\ nread' = nread + 1
        /\ lastRead' = [type |-> ev.type, draining |-> signal]
        /\ inflight' = IF ShouldDrop(ev) THEN inflight
                       ELSE inflight \cup {[ev |-> ev, op |-> QueueOp(ev)]}
    /\ lastQueue' = "none"
    /\ UNCHANGED inf_pc
    /\ UNCHANGED supervisorVars
    /\ UNCHANGED queueVars
    /\ UNCHANGED <<providerVars, mainVars, node, podVars>>

\* A loop that propagates the error of a queue call and returns.
LeavesOnQueueError(res) == IF res = "err" THEN "done" ELSE "loop"

\* kubelet.rs 191-199: both results of a queue call are logged, and the
\* loop goes on.
AfterQueueResult(res) == "loop"

\* The awaited queue call completes. With Ok the queue has done its work;
\* with an error it has started no runner and sent nothing.
InformerComplete ==
    /\ CorePolled
    /\ inf_pc = "loop"
    /\ \E f \in inflight, res \in Results :
        LET out == IF res = "err" THEN [h |-> handlers, r |-> runners]
                   ELSE IF f.op = "resync"
                   THEN Resync(QueueHandlers, runners, f.ev)
                   ELSE Enqueue(QueueHandlers, runners, f.ev)
        IN  /\ handlers' = out.h
            /\ runners' = out.r
            /\ inflight' = inflight \ {f}
            /\ lastQueue' = res
            /\ inf_pc' = AfterQueueResult(res)
            /\ core_res' = IF inf_pc' = "done" THEN "ok" ELSE core_res
    /\ UNCHANGED <<nread, lastRead>>
    /\ UNCHANGED <<node_created, signal, exited, svc_pc, nu_pc, hs_pc>>
    /\ UNCHANGED shutdownVars
    /\ UNCHANGED <<providerVars, mainVars, node, podVars>>

\* informer.try_next() yields Err(e): a warning, and the loop goes on to
\* the next try_next.
InformerStreamError ==
    /\ CorePolled
    /\ inf_pc = "loop"
    /\ QueueCallAwaited
    /\ lastRead' = [type |-> "Error", draining |-> signal]
    /\ UNCHANGED <<inf_pc, nread, inflight, lastQueue>>
    /\ UNCHANGED supervisorVars
    /\ UNCHANGED queueVars
    /\ UNCHANGED <<providerVars, mainVars, node, podVars>>

\* informer.try_next() yields Ok(None): the loop breaks, the informer
\* returns, and the core select completes with Ok(()).
InformerStreamEnd ==
    /\ CorePolled
    /\ inf_pc = "loop"
    /\ QueueCallAwaited
    /\ inf_pc' = "done"
    /\ core_res' = "ok"
    /\ UNCHANGED <<node_created, signal, exited, svc_pc, nu_pc, hs_pc>>
    /\ UNCHANGED shutdownVars
    /\ UNCHANGED <<nread, lastRead, inflight, lastQueue>>
    /\ UNCHANGED queueVars
    /\ UNCHANGED <<providerVars, mainVars, node, podVars>>

----------------------------------------------------------------------------
(* The Stackable provider: the states of a pod and their transitions *)

\* The largest number of containers of a pod.
MaxContainers == 2

\* What next() reads of a pod: the size of its container list, whether the
\* one container names an image that parses as a package, and what
\* find_repository answers for that package.
Pods ==
    [containers : 0..MaxContainers,
     image : BOOLEAN,
     repository : {"found", "none", "err"}]

\* The states defined under states/.
SourceStates ==
    {"Downloading", "DownloadingBackoff", "Installing", "CreatingConfig",
     "Running", "Failed", "Stopped", "Terminated"}

\* The states that are transition targets and have no definition under
\* states/.
MissingStates == {"CreatingService", "Starting"}

InitialState == "Downloading"

TerminatedState == "Terminated"

\* #[transition_to(...)] of each state; Terminated derives no TransitionTo.
TransitionTo(s) ==
    CASE s = "Downloading" -> {"Installing", "DownloadingBackoff"}
      [] s = "DownloadingBackoff" -> {"Downloading"}
      [] s = "Installing" -> {"CreatingConfig", "SetupFailed"}
      [] s = "CreatingConfig" -> {"CreatingService", "SetupFailed"}
      [] s = "Running" -> {"Stopping", "Failed", "Running", "Installing"}
      [] s = "Failed" -> {"Installing"}
      [] s = "Stopped" -> {"Starting"}
      [] s = "Terminated" -> {}

\* The phase of json_status of each state.
Phase(s) ==
    CASE s = "Running" -> "Running"
      [] s = "Terminated" -> "Succeeded"
      [] OTHER -> "Pending"

\* Transition::next(self, S { field: d }): the successor and what it carries.
TransitionNextWith(target, d) == [kind |-> "Next", to |-> target, data |-> d]

TransitionNext(target) == TransitionNextWith(target, "none")

TransitionComplete(res) == [kind |-> "Complete", to |-> res, data |-> "none"]

NoTransition == [from |-> "none", kind |-> "none", to |-> "none"]

\* fail_fatal!(e): the error ends the run.
fail_fatal == TransitionComplete("err")

\* Downloading::get_package: exactly one container, whose image parses.
get_package(p) ==
    IF p.containers # 1 THEN "err"
    ELSE IF p.image THEN "ok" ELSE "err"

\* The package get_package has parsed from the pod.
PackageOf(p) == IF get_package(p) = "ok" THEN "package" ELSE "none"

\* A Downloading that goes on to install whatever the repositories answer.
DownloadingNextUnchecked(p) == TransitionNext("Installing")

\* Downloading::next: an error of get_package is logged and the state goes
\* on to Installing; otherwise the repositories decide, and the backoff
\* state is given the package.
DownloadingNext(p) ==
    IF get_package(p) = "ok"
    THEN IF p.repository = "found"
         THEN TransitionNext("Installing")
         ELSE TransitionNextWith("DownloadingBackoff", PackageOf(p))
    ELSE TransitionNext("Installing")

\* CreatingConfig::next: a pod without exactly one container is fatal.
CreatingConfigNext(p) ==
    IF p.containers # 1 THEN fail_fatal
    ELSE TransitionNext("CreatingService")

\* A Running that ends the run when its process has ended.
OnProcessEndTerminated == "Terminated"

\* running.rs 57-62: whatever try_wait reports but Ok(None) is "process died".
OnProcessEnd == "Failed"

\* The message of the Failed that follows the end of the process.
ProcessDied == "process died"

\* The second argument of make_status in json_status of each state.
StatusMessage(s, d) ==
    CASE s \in {"Downloading", "Installing", "CreatingConfig"} -> "status:initializing"
      [] s \in {"DownloadingBackoff", "Running", "Stopped"} -> "status:running"
      [] s \in {"Failed", "Terminated"} -> d
      [] OTHER -> "none"

\* The run loop: a Next makes its target the current state, or the
\* terminated state if termination is pending; a Complete ends the run.
\* next() of the new state starts, that of Running with its drain.
Kernel(from, t) ==
    /\ trans' = [from |-> from, kind |-> t.kind, to |-> t.to]
    /\ IF t.kind = "Next"
       THEN /\ state' = IF terminating THEN TerminatedState ELSE t.to
            /\ data' = IF terminating THEN "none" ELSE t.data
            /\ run_pc' = IF state' = "Running" THEN "drain" ELSE "none"
            /\ late' = FALSE
            /\ UNCHANGED complete
       ELSE /\ complete' = t.to
            /\ UNCHANGED <<state, data, run_pc, late>>

\* The run loop awaits next() of state s.
Driven(s) == state = s /\ complete = "none"

kubeletVars == <<supervisorVars, informerVars, queueVars, mainVars, node, podVars>>

DownloadingStep ==
    /\ Driven("Downloading")
    /\ Kernel("Downloading", DownloadingNext(pod))
    /\ UNCHANGED <<pod, installed, last_install, child, changed, terminating>>
    /\ UNCHANGED kubeletVars

\* The backoff wait returns, and the download is tried again.
DownloadingBackoffStep ==
    /\ Driven("DownloadingBackoff")
    /\ Kernel("DownloadingBackoff", TransitionNext("Downloading"))
    /\ UNCHANGED <<pod, installed, last_install, child, changed, terminating>>
    /\ UNCHANGED kubeletVars

\* An Installing that finds no package installed.
package_never_installed(exists) == FALSE

\* install_package.rs 28-34: the package's directory exists under
\* parcel_directory.
package_installed(exists) == exists

\* install_package.rs 60-71: CreatingConfig follows, whether the package was
\* there ("skipped") or install_package returned Ok or Err.
InstallingNext(res) == TransitionNext("CreatingConfig")

\* Installing::next: an installed package is left alone; otherwise
\* install_package runs and its result is dropped. An unpack that fails may
\* have created the package's directory already.
InstallingStep ==
    /\ Driven("Installing")
    /\ IF package_installed(installed)
       THEN /\ last_install' = "skipped"
            /\ UNCHANGED installed
       ELSE \E res \in Results, partial \in BOOLEAN :
            /\ last_install' = res
            /\ installed' = (installed \/ res = "ok" \/ partial)
    /\ Kernel("Installing", InstallingNext(last_install'))
    /\ UNCHANGED <<pod, child, changed, terminating>>
    /\ UNCHANGED kubeletVars

CreatingConfigStep ==
    /\ Driven("CreatingConfig")
    /\ Kernel("CreatingConfig", CreatingConfigNext(pod))
    /\ UNCHANGED <<pod, installed, last_install, child, changed, terminating>>
    /\ UNCHANGED kubeletVars

\* CreatingService and Starting: the process is started and Running follows.
MissingStateStep ==
    /\ state \in MissingStates
    /\ complete = "none"
    /\ child' = "running"
    /\ Kernel(state, TransitionNext("Running"))
    /\ UNCHANGED <<pod, installed, last_install, changed, terminating>>
    /\ UNCHANGED kubeletVars

\* A Running that starts to wait without draining the notifier.
DrainSkipped(pending) == "wait"

\* running.rs 41-43: while a notification arrives within 100 ms it is taken
\* and the drain goes on; the first timeout ends the drain.
AfterDrainTurn(pending) == IF pending THEN "drain" ELSE "wait"

\* Running::next, one turn of its drain: a pending notification is taken.
RunningDrain ==
    /\ Driven("Running")
    /\ run_pc = "drain"
    /\ run_pc' = AfterDrainTurn(changed)
    /\ changed' = IF run_pc' = "drain" THEN FALSE ELSE changed
    /\ UNCHANGED <<pod, state, trans, complete, installed, last_install, child, terminating,
                   data, late>>
    /\ UNCHANGED kubeletVars

\* A Running that stops the process when the pod has changed.
OnPodChangedStopping == "Stopping"

\* running.rs 66: the state Running returns after the break of its loop.
OnPodChanged == "Installing"

\* Running::next, one turn of its loop: a notification of pod_changed
\* breaks the loop and Installing follows; otherwise, after the timer,
\* try_wait decides between another turn and Failed.
RunningStep ==
    /\ Driven("Running")
    /\ run_pc = "wait"
    /\ \E notified \in {changed, FALSE} :
        IF notified
        THEN /\ Kernel("Running", TransitionNext(OnPodChanged))
             /\ changed' = FALSE
        ELSE IF child = "running"
        THEN UNCHANGED <<state, trans, complete, changed, data, run_pc, late>>
        ELSE /\ Kernel("Running", TransitionNextWith(OnProcessEnd, ProcessDied))
             /\ UNCHANGED changed
    /\ UNCHANGED <<pod, installed, last_install, child, terminating>>
    /\ UNCHANGED kubeletVars

FailedStep ==
    /\ Driven("Failed")
    /\ Kernel("Failed", TransitionNext("Installing"))
    /\ UNCHANGED <<pod, installed, last_install, child, changed, terminating>>
    /\ UNCHANGED kubeletVars

\* Stopped::next: seven delays of 2 s, then Starting.
StoppedStep ==
    /\ Driven("Stopped")
    /\ Kernel("Stopped", TransitionNext("Starting"))
    /\ UNCHANGED <<pod, installed, last_install, child, changed, terminating>>
    /\ UNCHANGED kubeletVars

\* A Terminated that ends the run with an error.
TerminatedNextErr == TransitionComplete("err")

\* terminated.rs 17: Transition::Complete(Ok(())).
TerminatedNext == TransitionComplete("ok")

TerminatedStep ==
    /\ Driven("Terminated")
    /\ Kernel("Terminated", TerminatedNext)
    /\ UNCHANGED <<pod, installed, last_install, child, changed, terminating>>
    /\ UNCHANGED kubeletVars

\* The process of the pod ends.
ProcessEnds ==
    /\ complete = "none"
    /\ child = "running"
    /\ child' = "exited"
    /\ UNCHANGED <<pod, state, trans, complete, installed, last_install, changed, terminating,
                   data, run_pc, late>>
    /\ UNCHANGED kubeletVars

\* The pod is modified: pod_changed is signalled. The notifier holds one
\* signal; a signal made while one is pending adds nothing.
PodModified ==
    /\ complete = "none"
    /\ ~changed
    /\ changed' = TRUE
    /\ late' = (state = "Running")
    /\ UNCHANGED <<pod, state, trans, complete, installed, last_install, child, terminating,
                   data, run_pc>>
    /\ UNCHANGED kubeletVars

\* The pod is deleted or the node shuts down: termination is requested and
\* pod_changed signalled.
TerminationRequested ==
    /\ complete = "none"
    /\ ~terminating
    /\ terminating' = TRUE
    /\ changed' = TRUE
    /\ late' = (late \/ (~changed /\ state = "Running"))
    /\ UNCHANGED <<pod, state, trans, complete, installed, last_install, child, data, run_pc>>
    /\ UNCHANGED kubeletVars

\* What a state constructed outside a run carries.
FieldOf(p, s) ==
    CASE s = "DownloadingBackoff" -> "package"
      [] s = "Failed" -> ProcessDied
      [] OTHER -> "none"

\* The state machine of pod p about to call next() of state s.
PodStart(p, s, inst) ==
    /\ pod = p
    /\ state = s
    /\ trans = NoTransition
    /\ complete = "none"
    /\ installed = inst
    /\ last_install = "none"
    /\ child = IF s = "Running" THEN "running" ELSE "none"
    /\ changed = FALSE
    /\ terminating = FALSE
    /\ data = FieldOf(p, s)
    /\ run_pc = IF s = "Running" THEN "drain" ELSE "none"
    /\ late = FALSE

----------------------------------------------------------------------------

(* find_repository, repository/mod.rs, and StackableRepoProvider *)

Products == {"p", "q"}

Versions == {"1", "2"}

\* The packages looked for: one of each product.
Packages == {[product |-> "p", version |-> "1"], [product |-> "q", version |-> "2"]}

EmptyParcels == [pr \in {} |-> {}]

\* RepositoryContent.parcels: for some products, the versions the repository has.
Parcels == UNION {[ps -> SUBSET Versions] : ps \in SUBSET Products}

\* A Repository object: whether its properties have a "url" that parses,
\* whether its metadata.json can be fetched and read, and what that lists.
Repositories ==
    {[url |-> u, metadata |-> "err", parcels |-> EmptyParcels] : u \in {"none", "bad"}}
    \cup {[url |-> "ok", metadata |-> "err", parcels |-> EmptyParcels]}
    \cup {[url |-> "ok", metadata |-> "ok", parcels |-> c] : c \in Parcels}

\* All lists of at most n repositories.
RepoLists(n) == UNION {[1..k -> Repositories] : k \in 0..n}

\* TryFrom<&Repository> for StackableRepoProvider: Err without a "url"
\* property and with one that does not parse.
try_from(r) == IF r.url = "ok" THEN "ok" ELSE "err"

\* provides_package: Err if the metadata cannot be had, else whether the
\* metadata has the product and, under it, the version.
provides_package(r, pkg) ==
    IF r.metadata = "err" THEN "err"
    ELSE IF pkg.product \in DOMAIN r.parcels
         THEN (IF pkg.version \in r.parcels[pkg.product] THEN "true" ELSE "false")
         ELSE "false"

\* What find_repository returns, and the repositories it has converted, in
\* the order it did.
FindResult(kind, r, ex) == [kind |-> kind, repo |-> r, examined |-> ex]

\* A search that passes over a repository that fails.
RECURSIVE find_in_list_skipping(_, _, _, _)
find_in_list_skipping(rs, i, pkg, ex) ==
    IF i > Len(rs) THEN FindResult("None", 0, ex)
    ELSE IF try_from(rs[i]) = "ok" /\ provides_package(rs[i], pkg) = "true"
    THEN FindResult("Some", i, Append(ex, i))
    ELSE find_in_list_skipping(rs, i + 1, pkg, Append(ex, i))

\* mod.rs 29-41: the loop over the listed repositories, from the i-th on.
RECURSIVE find_in_list(_, _, _, _)
find_in_list(rs, i, pkg, ex) ==
    IF i > Len(rs) THEN FindResult("None", 0, ex)
    ELSE IF try_from(rs[i]) = "err" THEN FindResult("Err", i, Append(ex, i))
    ELSE IF provides_package(rs[i], pkg) = "err" THEN FindResult("Err", i, Append(ex, i))
    ELSE IF provides_package(rs[i], pkg) = "true" THEN FindResult("Some", i, Append(ex, i))
    ELSE find_in_list(rs, i + 1, pkg, Append(ex, i))

\* mod.rs 15-23: the repository of the given name only; a name whose get
\* fails is one past the end of rs.
find_named(rs, ref, pkg) ==
    IF ref > Len(rs) THEN FindResult("Err", 0, <<>>)
    ELSE IF try_from(rs[ref]) = "err" THEN FindResult("Err", ref, <<ref>>)
    ELSE IF provides_package(rs[ref], pkg) = "err" THEN FindResult("Err", ref, <<ref>>)
    ELSE IF provides_package(rs[ref], pkg) = "true" THEN FindResult("Some", ref, <<ref>>)
    ELSE FindResult("None", 0, <<ref>>)

find_repository(rs, pkg, ref, lok) ==
    IF ref # 0 THEN find_named(rs, ref, pkg)
    ELSE IF ~lok THEN FindResult("Err", 0, <<>>)
    ELSE find_in_list(rs, 1, pkg, <<>>)

NoFindResult == FindResult("none", 0, <<>>)

FindIdle ==
    /\ repos = <<>>
    /\ reference = 0
    /\ list_ok = TRUE
    /\ package = [product |-> "p", version |-> "1"]
    /\ find_pc = "idle"
    /\ find_result = NoFindResult

\* A call of find_repository, awaited to its return.
FindRepository ==
    /\ find_pc = "call"
    /\ find_result' = find_repository(repos, package, reference, list_ok)
    /\ find_pc' = "done"
    /\ UNCHANGED <<repos, reference, list_ok, package, hostVars>>
    /\ UNCHANGED <<wasccVars, logVars, dropped>>
    /\ UNCHANGED <<supervisorVars, informerVars, queueVars, mainVars, node, providerVars>>

----------------------------------------------------------------------------

(* wascc_run and ActorHandle::stop, wascc-provider lib.rs *)

LOG_CAPABILITY == "wascc:logging"

HTTP_CAPABILITY == "wascc:http_server"

FS_CAPABILITY == "wascc:blobstore"

CapabilityNames == {LOG_CAPABILITY, HTTP_CAPABILITY, FS_CAPABILITY}

\* The names of the volumes, and the binding of a capability that has none.
VolumeNames == 1..MaxVolumes

NoBinding == 0

\* The public key of the actor.
ActorKey == "pk"

\* The WASM bytes: whether Actor::from_slice reads them, and the
\* capabilities the actor declares.
Actors ==
    {[loads |-> FALSE, caps |-> {}]}
    \cup {[loads |-> TRUE, caps |-> c] : c \in SUBSET CapabilityNames}

\* The lists of volumes a pod can have.
VolumeLists == {[j \in 1..k |-> j] : k \in 0..MaxVolumes}

EmptyHost == [actors |-> {}, natives |-> {}, bindings |-> {}]

NoHandle == [key |-> "none", volumes |-> <<>>, capabilities |-> {}]

NoStop == [res |-> "none", attempted |-> <<>>]

Capability(name, binding) == [name |-> name, binding |-> binding]

\* lib.rs 361-382: the capabilities pushed before the volumes are looked at.
PlainCapabilities(caps) ==
    (IF LOG_CAPABILITY \in caps THEN <<Capability(LOG_CAPABILITY, NoBinding)>> ELSE <<>>)
    \o (IF HTTP_CAPABILITY \in caps THEN <<Capability(HTTP_CAPABILITY, NoBinding)>> ELSE <<>>)

\* A wascc_run that configures its capabilities before it adds the actor.
AfterLoadBinding(a, vols) == "bind"

\* lib.rs 384-415: the loop over the volumes is entered if the actor
\* declares the filesystem capability, and add_actor follows.
AfterLoad(a, vols) ==
    IF FS_CAPABILITY \in a.caps /\ vols # <<>> THEN "fs" ELSE "add"

\* wascc_run returns Err through ?.
RunFails ==
    /\ w_result' = "Err"
    /\ w_pc' = "done"
    /\ UNCHANGED <<w_i, capabilities, host, handle>>

\* wascc_run returns Ok(ContainerHandle::new(ActorHandle {..}, ..)).
RunSucceeds ==
    /\ w_result' = "Ok"
    /\ w_pc' = "done"
    /\ handle' = [key |-> ActorKey, volumes |-> w_volumes, capabilities |-> actor.caps]

\* lib.rs 350-382: the log file is created, the actor is loaded from the
\* bytes, and the logging and HTTP capabilities it declares are listed.
RunLoad ==
    /\ w_pc = "load"
    /\ \E tmp \in Results :
        IF tmp = "err" \/ ~actor.loads
        THEN RunFails
        ELSE /\ capabilities' = PlainCapabilities(actor.caps)
             /\ w_pc' = AfterLoad(actor, w_volumes)
             /\ w_i' = 1
             /\ UNCHANGED <<host, w_result, handle>>
    /\ UNCHANGED <<actor, w_volumes, stops, stop_result, findVars>>
    /\ UNCHANGED <<wasccVars, logVars, dropped>>
    /\ UNCHANGED <<supervisorVars, informerVars, queueVars, mainVars, node, providerVars>>

\* lib.rs 385-409: one turn of the loop over the volumes. The filesystem
\* capability of the volume is made and added to the host, and listed.
RunAddFs ==
    /\ w_pc = "fs"
    /\ \E res \in Results :
        IF res = "err"
        THEN RunFails
        ELSE /\ host' = [host EXCEPT !.natives = @ \cup {w_volumes[w_i]}]
             /\ capabilities' = Append(capabilities,
                                       Capability(FS_CAPABILITY, w_volumes[w_i]))
             /\ w_i' = IF w_i = Len(w_volumes) THEN 1 ELSE w_i + 1
             /\ w_pc' = IF w_i = Len(w_volumes) THEN "add" ELSE "fs"
             /\ UNCHANGED <<w_result, handle>>
    /\ UNCHANGED <<actor, w_volumes, stops, stop_result, findVars>>
    /\ UNCHANGED <<wasccVars, logVars, dropped>>
    /\ UNCHANGED <<supervisorVars, informerVars, queueVars, mainVars, node, providerVars>>

\* lib.rs 412-415: add_actor; with no capability to configure, the handle is
\* returned.
RunAddActor ==
    /\ w_pc = "add"
    /\ \E res \in Results :
        IF res = "err"
        THEN RunFails
        ELSE /\ host' = [host EXCEPT !.actors = @ \cup {ActorKey}]
             /\ IF capabilities = <<>>
                THEN RunSucceeds /\ UNCHANGED <<w_i, capabilities>>
                ELSE /\ w_pc' = "bind"
                     /\ w_i' = 1
                     /\ UNCHANGED <<capabilities, w_result, handle>>
    /\ UNCHANGED <<actor, w_volumes, stops, stop_result, findVars>>
    /\ UNCHANGED <<wasccVars, logVars, dropped>>
    /\ UNCHANGED <<supervisorVars, informerVars, queueVars, mainVars, node, providerVars>>

\* lib.rs 416-422: set_binding for one listed capability; after the last
\* the handle is returned.
RunSetBinding ==
    /\ w_pc = "bind"
    /\ w_i \in DOMAIN capabilities
    /\ \E res \in Results :
        IF res = "err"
        THEN RunFails
        ELSE /\ host' = [host EXCEPT !.bindings = @ \cup {capabilities[w_i]}]
             /\ IF w_i = Len(capabilities)
                THEN RunSucceeds /\ UNCHANGED <<w_i, capabilities>>
                ELSE /\ w_i' = w_i + 1
                     /\ UNCHANGED <<w_pc, capabilities, w_result, handle>>
    /\ UNCHANGED <<actor, w_volumes, stops, stop_result, findVars>>
    /\ UNCHANGED <<wasccVars, logVars, dropped>>
    /\ UNCHANGED <<supervisorVars, informerVars, queueVars, mainVars, node, providerVars>>

\* The first n elements of a list.
Take(q, n) == [j \in 1..n |-> q[j]]

\* lib.rs 100: self.volumes.drain(0..) leaves the handle without volumes.
HandleAfterStop(h) == [h EXCEPT !.volumes = <<>>]

\* lib.rs 102-118: the removals stop attempts for the drained volumes vols,
\* when the failAt-th call to the host fails (the first is remove_actor);
\* failAt = 0 if none fails.
StopAttempts(h, vols, failAt) ==
    IF failAt = 1 \/ FS_CAPABILITY \notin h.capabilities THEN <<>>
    ELSE IF failAt = 0 THEN vols
    ELSE Take(vols, failAt - 1)

\* The host after these calls: the actor is gone unless remove_actor failed,
\* and so are the native capabilities whose removal succeeded.
HostAfterStop(hs, h, vols, failAt) ==
    IF failAt = 1 THEN hs
    ELSE [hs EXCEPT
            !.actors = @ \ {h.key},
            !.natives = @ \ {vols[j] : j \in 1..(IF failAt = 0
                                                 THEN Len(StopAttempts(h, vols, 0))
                                                 ELSE Len(StopAttempts(h, vols, failAt)) - 1)}]

\* ActorHandle::stop, to its return.
Stop ==
    /\ handle # NoHandle
    /\ stops < MaxStops
    /\ stops' = stops + 1
    /\ handle' = HandleAfterStop(handle)
    /\ \E failAt \in 0..(IF FS_CAPABILITY \in handle.capabilities
                          THEN Len(handle.volumes) + 1 ELSE 1) :
        /\ stop_result' = [res |-> IF failAt = 0 THEN "ok" ELSE "err",
                           attempted |-> StopAttempts(handle, handle.volumes, failAt)]
        /\ host' = HostAfterStop(host, handle, handle.volumes, failAt)
    /\ UNCHANGED <<actor, w_volumes, w_pc, w_i, capabilities, w_result, findVars>>
    /\ UNCHANGED <<wasccVars, logVars, dropped>>
    /\ UNCHANGED <<supervisorVars, informerVars, queueVars, mainVars, node, providerVars>>

HostIdle ==
    /\ actor = [loads |-> FALSE, caps |-> {}]
    /\ w_volumes = <<>>
    /\ w_pc = "idle"
    /\ w_i = 1
    /\ capabilities = <<>>
    /\ host = EmptyHost
    /\ w_result = "none"
    /\ handle = NoHandle
    /\ stops = 0
    /\ stop_result = NoStop

----------------------------------------------------------------------------

\* Kubelet::start has been called and nothing has run.
SupervisorInit ==
    /\ node_created = FALSE
    /\ signal = FALSE
    /\ exited = {}
    /\ svc_pc = "select"
    /\ nu_pc = "update"
    /\ hs_pc = "poll"
    /\ drains = 0
    /\ late_sigints = 0
    /\ core_res = "pending"
    /\ inf_pc = "loop"
    /\ nread = 0
    /\ lastRead = [type |-> "None", draining |-> FALSE]
    /\ inflight = {}
    /\ lastQueue = "none"
    /\ handlers = NoHandlers
    /\ runners = {}
    /\ node = NoNode

\* No pod has a PodState, and no log has been requested.
PodsIdle ==
    /\ port_map = [p \in Ports |-> NoKey]
    /\ handles = {}
    /\ pod_pc = [k \in WasccKeys |-> "none"]
    /\ drops = [k \in WasccKeys |-> 0]
    /\ dropped = FALSE
    /\ log_requests = 0
    /\ last_log = [key |-> NoKey, res |-> "none"]

PodsInit ==
    /\ PodsIdle
    /\ FindIdle
    /\ HostIdle

\* A Kubelet of provider p has been constructed and its start is called.
Constructed(p) ==
    /\ main_pc = "start"
    /\ provider = p
    /\ found = CrdSet
    /\ provider_new = IF p = "stackable" THEN StackableProviderNew(found) ELSE NoResult

KubeletInit ==
    /\ SupervisorInit
    /\ Constructed("stackable")
    /\ PodsInit

\* The pod of the happy path: one container, a package a repository has.
HappyPod == [containers |-> 1, image |-> TRUE, repository |-> "found"]

Init ==
    /\ KubeletInit
    /\ PodStart(HappyPod, InitialState, FALSE)

Next ==
    \/ NodeCreate
    \/ Sigint
    \/ CtrlCError
    \/ WebserverExits
    \/ RegistrarExits
    \/ NodeUpdaterStep
    \/ ServicesStore
    \/ HandlerPoll
    \/ DrainReturns
    \/ InformerRead
    \/ InformerComplete
    \/ InformerStreamError
    \/ InformerStreamEnd
    \/ RunnerIntake
    \/ RunnerObservesShutdown
    \/ RunnerExit
    \/ RunnerCompletes

Spec == Init /\ [][Next]_vars

\* The runtime polls a future that can run, and a runner task gets its turn.
\* The signal, the exit of a service and the events of the watch stream are
\* the environment's: nothing obliges them to happen.
Fairness ==
    /\ WF_vars(ServicesStore)
    /\ WF_vars(HandlerPoll /\ signal)
    /\ WF_vars(DrainReturns)
    /\ WF_vars(InformerComplete)
    /\ WF_vars(RunnerIntake)
    /\ WF_vars(RunnerObservesShutdown)
    /\ WF_vars(RunnerExit)

FairSpec == Spec /\ Fairness

\* The supervisor on a node whose watch stream delivers no pod event, with
\* the SIGINTs that arrive after the first.
ShutdownNext ==
    \/ NodeCreate
    \/ Sigint
    \/ CtrlCError
    \/ WebserverExits
    \/ RegistrarExits
    \/ NodeUpdaterStep
    \/ ServicesStore
    \/ HandlerPoll
    \/ DrainReturns
    \/ SigintRepeated
    \/ InformerStreamError
    \/ InformerStreamEnd

ShutdownSpec == Init /\ [][ShutdownNext]_vars

ShutdownFairSpec == ShutdownSpec /\ Fairness

\* One pod of the Stackable provider, from its initial state.
ProviderInit ==
    /\ KubeletInit
    /\ \E p \in Pods, inst \in BOOLEAN : PodStart(p, InitialState, inst)

ProviderNext ==
    \/ DownloadingStep
    \/ DownloadingBackoffStep
    \/ InstallingStep
    \/ CreatingConfigStep
    \/ MissingStateStep
    \/ RunningDrain
    \/ RunningStep
    \/ FailedStep
    \/ TerminatedStep
    \/ ProcessEnds
    \/ PodModified
    \/ TerminationRequested

ProviderSpec == ProviderInit /\ [][ProviderNext]_vars

\* Every next() that can return does return, and a running process ends.
\* That the pod is modified or deleted is left to the environment.
ProviderFairness ==
    /\ WF_vars(DownloadingStep)
    /\ WF_vars(DownloadingBackoffStep)
    /\ WF_vars(InstallingStep)
    /\ WF_vars(CreatingConfigStep)
    /\ WF_vars(MissingStateStep)
    /\ WF_vars(RunningDrain)
    /\ WF_vars(RunningStep)
    /\ WF_vars(FailedStep)
    /\ WF_vars(TerminatedStep)
    /\ WF_vars(ProcessEnds)

ProviderFairSpec == ProviderSpec /\ ProviderFairness

\* next() of every state of states/, applied to every pod.
TransitionInit ==
    /\ KubeletInit
    /\ \E p \in Pods, s \in SourceStates, inst \in BOOLEAN : PodStart(p, s, inst)

TransitionsNext ==
    \/ DownloadingStep
    \/ DownloadingBackoffStep
    \/ InstallingStep
    \/ CreatingConfigStep
    \/ MissingStateStep
    \/ RunningDrain
    \/ RunningStep
    \/ FailedStep
    \/ StoppedStep
    \/ TerminatedStep
    \/ ProcessEnds
    \/ PodModified
    \/ TerminationRequested

TransitionSpec == TransitionInit /\ [][TransitionsNext]_vars

----------------------------------------------------------------------------
(* Properties *)

\* The runner of runners' that continues runner r.
Continues(r, r2) == r2.key = r.key /\ r2.id = r.id

\* The runners of runners' that no runner of this state continues into.
Started == {n \in runners' : \A o \in runners : ~Continues(o, n)}

\* C1: whatever events the informer feeds into the queue, no two runners are
\* alive for the same PodKey.
C1_OneRunnerPerPod ==
    \A k \in PodKeys : Cardinality({r \in runners : r.key = k}) <= 1

\* An event for a pod that already has a runner has been routed to it.
C1_Witness ==
    \E r \in runners : \E i \in 1..Len(r.q) : r.q[i].type = "Applied"

\* C2: the shutdown flag starts false and, once true, is never set back.
C2_FlagMonotonic == ~signal /\ [][signal => signal']_vars

\* Both stores have been made: the signal task's and the services future's.
C2_Witness == signal /\ svc_pc = "done" /\ "signal_task" \in exited

\* C3: an Applied event read while the flag is set is dropped: nothing is
\* handed to the queue, the queue is left alone and the loop continues.
C3_AppliedDroppedWhileDraining ==
    [][(nread' = nread + 1 /\ lastRead'.type = "Applied" /\ signal)
        => /\ inflight' = inflight
           /\ inflight' = {}
           /\ handlers' = handlers
           /\ runners' = runners
           /\ inf_pc' = "loop"]_vars

C3_Witness ==
    /\ lastRead = [type |-> "Applied", draining |-> TRUE]
    /\ inflight = {}
    /\ inf_pc = "loop"

\* C4: once the shutdown flag is set, no new pod runner is started.
C4_NoRunnerStartedWhileDraining == [][signal => Started = {}]_vars

\* C5: every Restarted event read is handed to queue.resync, whether or not
\* the flag is set, and never to queue.enqueue.
C5_RestartedAlwaysResynced ==
    [][/\ (nread' = nread + 1 /\ lastRead'.type = "Restarted")
            => \E L \in SUBSET PodKeys :
                  inflight' = {[ev |-> RestartedEv(L, nread'), op |-> "resync"]}
       /\ \A f \in inflight' : f.ev.type = "Restarted" => f.op = "resync"]_vars

C5_Witness ==
    /\ lastRead = [type |-> "Restarted", draining |-> TRUE]
    /\ \E f \in inflight : f.ev.type = "Restarted" /\ f.op = "resync"

\* C6: every Deleted event read is handed to queue.enqueue, whether or not
\* the flag is set: only Applied events are ever dropped.
C6_DeletedAlwaysEnqueued ==
    [][/\ (nread' = nread + 1 /\ lastRead'.type = "Deleted")
            => \E k \in PodKeys :
                  inflight' = {[ev |-> DeletedEv(k, nread'), op |-> "enqueue"]}
       /\ (nread' = nread + 1 /\ inflight' = inflight)
            => lastRead'.type = "Applied"]_vars

C6_Witness ==
    /\ lastRead = [type |-> "Deleted", draining |-> TRUE]
    /\ \E f \in inflight : f.ev.type = "Deleted" /\ f.op = "enqueue"

\* C7: when the handling of Restarted(L) completes with Ok and the pods K live, a
\* Deleted is delivered to exactly the runners of K \ L, exactly the pods of
\* L \ K get a new runner, and every runner that was live is still the same
\* runner in the same state, those of K \cap L with no Deleted delivered.
C7_ResyncReconciles ==
    [][\A f \in inflight :
        (f.ev.type = "Restarted" /\ inflight' = inflight \ {f} /\ lastQueue' = "ok") =>
            LET L == f.ev.pods
                K == {r.key : r \in runners}
                n == f.ev.seq
            IN  /\ Started = {Spawn(k, f.ev) : k \in L \ K}
                /\ \A k \in L \ K : handlers'[k] = n
                /\ \A r \in runners :
                     \E r2 \in runners' :
                        /\ Continues(r, r2)
                        /\ r2.st = r.st
                        /\ handlers'[r.key] = r.id
                        /\ r.key \notin L => r2.q = Append(r.q, Msg("Deleted", n))
                        /\ r.key \in L => r2.q \in {r.q, Append(r.q, Msg("Applied", n))}
      ]_vars

\* {A, C} live, then Restarted([A, B]): C is told to terminate, B is started,
\* A goes on.
C7_Witness ==
    /\ inflight = {}
    /\ \E a, b, c \in runners :
        /\ a.key = "A" /\ a.id = 1 /\ a.st = "running"
        /\ b = [key |-> "B", id |-> 2, st |-> "running", q |-> <<>>]
        /\ c.key = "C" /\ c.id = 1 /\ c.q = <<Msg("Deleted", 2)>>

\* C8: the informer hands one event at a time to the queue, the one it read
\* last, so what a runner was started with and what its channel holds are
\* in the order of the stream.
C8_StreamOrder ==
    /\ Cardinality(inflight) <= 1
    /\ \A f \in inflight : f.ev.seq = nread
    /\ \A r \in runners :
         \A i \in 1..Len(r.q) :
            r.q[i].seq > (IF i = 1 THEN r.id ELSE r.q[i - 1].seq)

\* A runner has been sent an event that came after the one that started it.
C8_Witness == \E r \in runners : r.q # <<>> /\ r.q[1].seq > r.id

\* C9: the first service task to complete, with whatever result, completes
\* the select and the flag is stored; the flag is not set while all four run.
C9_FlagFollowsFirstExit ==
    /\ (exited # {}) <=> (svc_pc # "select")
    /\ svc_pc = "done" => signal
    /\ signal => exited # {}

C9_Witness == exited = {"webserver"} /\ svc_pc = "done" /\ signal

\* C10: once the shutdown flag is set, node::drain is eventually called.
C10_FlagLeadsToDrain == signal ~> DrainCalled

\* C11: start returns Ok only after the drain task has finished and the pod
\* informer has completed; neither is outstanding when it returns.
C11_ReturnsAfterDrainAndStreamEnd ==
    StartResult = "ok" => (hs_pc = "done" /\ inf_pc = "done")

\* C12: start returns Ok only if node::drain was called and returned Ok; an
\* error of node::drain is the result of start.
C12_OkOnlyAfterCleanDrain ==
    /\ StartResult = "ok" => (drains = 1 /\ hs_pc = "done")
    /\ (hs_pc = "done" /\ core_res # "ok") => StartResult = "err"

\* C13: after the SIGINT task has completed, start eventually returns: Ok,
\* unless node::drain has returned an error, which start then returns.
C13_SigintLeadsToReturn ==
    ("signal_task" \in exited) ~> (StartResult = "ok" \/ core_res = "err")

\* start has returned Ok after a SIGINT and a drain that returned Ok.
C13_Witness ==
    /\ exited = {"signal_task"}
    /\ signal
    /\ hs_pc = "done"
    /\ StartResult = "ok"

\* C14: a SIGINT after the first changes neither the flag, nor the drain task,
\* nor the two task groups, hence not the result of start; node::drain is
\* called at most once, and only one completion of a service task is acted on.
C14_ShutdownIdempotent ==
    [][/\ drains' <= 1
       /\ Cardinality(exited') <= 1
       /\ late_sigints' # late_sigints =>
            UNCHANGED <<signal, exited, svc_pc, hs_pc, drains, core_res,
                        inf_pc>>]_vars

\* start has returned Ok after several SIGINTs and one drain.
C14_Witness ==
    /\ late_sigints = MaxSigints
    /\ exited = {"signal_task"}
    /\ signal
    /\ drains = 1
    /\ StartResult = "ok"

\* C15: until node::create has returned, no task of start has made a step:
\* no renewal, no read of the stream, no exit, no store, no drain.
C15_NodeCreatedFirst ==
    ~node_created =>
        /\ ~signal
        /\ exited = {}
        /\ svc_pc = "select"
        /\ nu_pc = "update"
        /\ hs_pc = "poll"
        /\ drains = 0
        /\ core_res = "pending"
        /\ inf_pc = "loop"
        /\ nread = 0
        /\ lastRead.type = "None"
        /\ inflight = {}
        /\ runners = {}

\* With the node created, a renewal has been made and an event dispatched.
C15_Witness ==
    /\ node_created
    /\ nu_pc = "delay"
    /\ nread > 0
    /\ runners # {}

\* C16: the node updater never completes; a renewal, whatever its outcome,
\* is followed by the delay and touches neither the flag nor the select, and
\* the delay is followed by the next renewal.
C16_UpdaterNeverExits ==
    [][/\ "node_updater" \notin exited'
       /\ (nu_pc = "update" /\ nu_pc' # nu_pc /\ exited' = exited) =>
            (nu_pc' = "delay" /\ UNCHANGED <<signal, svc_pc>>)
       /\ (nu_pc = "delay" /\ nu_pc' # nu_pc /\ exited' = exited) =>
            nu_pc' = "update"]_vars

\* A renewal has returned, the updater is in its delay and nothing has shut down.
C16_Witness ==
    /\ nu_pc = "delay"
    /\ exited = {}
    /\ svc_pc = "select"
    /\ ~signal

\* C17: while the shutdown flag is set the node updater is stopped: it makes
\* no renewal.
C17_NoRenewalAfterFlag == signal => nu_pc = "stopped"

\* The flag is set, the updater stopped, and start is still at work.
C17_Witness ==
    /\ signal
    /\ nu_pc = "stopped"
    /\ StartResult = "pending"
    /\ hs_pc = "poll"

\* C18: the informer completes only in a step that reads the end of the
\* stream: no queue call is awaited, none completes, nothing is read, and its
\* result is Ok; a transport error and an error of a queue call leave it in
\* its loop.
C18_InformerExitsOnlyAtStreamEnd ==
    [][/\ (inf_pc = "loop" /\ inf_pc' = "done") =>
            /\ QueueCallAwaited
            /\ UNCHANGED <<nread, lastRead, inflight, lastQueue>>
            /\ core_res' = "ok"
       /\ (lastRead' # lastRead /\ lastRead'.type = "Error") => inf_pc' = "loop"
       /\ (inflight' # inflight /\ lastQueue' = "err") => inf_pc' = "loop"]_vars

\* A queue call has failed, then the stream has given a transport error, and
\* the informer is still in its loop.
C18_Witness ==
    /\ lastQueue = "err"
    /\ lastRead.type = "Error"
    /\ inf_pc = "loop"

\* C19: the target of every Transition::Next returned by next() of a state of
\* states/ is in the set that state declares with transition_to; Terminated
\* declares none and returns no Next.
C19_TransitionsDeclared ==
    trans.from \in SourceStates =>
        /\ trans.kind = "Next" => trans.to \in TransitionTo(trans.from)
        /\ trans.from = "Terminated" => trans.kind = "Complete"

\* Running has returned Next(Failed) for a process that ended.
C19_Witness ==
    /\ trans = [from |-> "Running", kind |-> "Next", to |-> "Failed"]
    /\ child = "exited"

\* C20: for a pod with one container and a package a repository provides,
\* that is neither modified nor deleted and whose process, once started,
\* ends, the state machine run from the initial state reaches the terminated
\* state, whose phase is Succeeded.
C20_HappyPathCompletes ==
    [](~changed /\ ~terminating) =>
        ((pod = HappyPod /\ state = InitialState /\ trans = NoTransition)
            ~> (state = TerminatedState /\ Phase(state) = "Succeeded"))

\* The pod has a package and no repository provides it.
MissingPackage == get_package(pod) = "ok" /\ pod.repository # "found"

\* C21: while no repository provides the pod's package the state machine goes
\* from Downloading to DownloadingBackoff and back and never enters
\* Installing (a pending termination apart), and DownloadingBackoff carries
\* the package.
C21_MissingPackageBacksOff ==
    [][MissingPackage =>
        /\ state' # "Installing"
        /\ (state = "Downloading" /\ state' # state) =>
                state' \in {"DownloadingBackoff", TerminatedState}
        /\ (state = "DownloadingBackoff" /\ state' # state) =>
                state' \in {"Downloading", TerminatedState}
        /\ state' = "DownloadingBackoff" => data' = PackageOf(pod)]_vars

\* The download has been tried again after a backoff, and is backing off again.
C21_Witness ==
    /\ MissingPackage
    /\ state = "DownloadingBackoff"
    /\ data = "package"
    /\ trans.from = "Downloading"
    /\ ~terminating

\* C22: once the pod has entered DownloadingBackoff, the status of its state
\* reports ImagePullBackOff.
C22_BackoffReportsImagePullBackOff ==
    (state = "DownloadingBackoff" \/ trans.from = "DownloadingBackoff") =>
        StatusMessage(state, data) = "ImagePullBackOff"

\* C23: a pod whose container list has not exactly one element enters none of
\* the states that follow the download.
C23_IllegalPodStopsAtDownload ==
    pod.containers # 1 =>
        state \notin {"Installing", "CreatingConfig", "CreatingService",
                      "Starting", "Running"}

\* C24: the status of a pod in the Failed state has phase Failed and carries
\* the message of the failure.
C24_FailedHasPhaseFailed ==
    state = "Failed" =>
        /\ Phase(state) = "Failed"
        /\ StatusMessage(state, data) = data

\* C25: a run started in the initial state, of a pod that is neither
\* modified nor deleted, eventually ends with a Complete.
C25_RunCompletes ==
    [](~changed /\ ~terminating) =>
        ((state = InitialState /\ trans = NoTransition) ~> (complete # "none"))

\* C30: a signal of pod_changed pending when Running::next starts is taken
\* by the drain without a transition, and a signal made after Running::next
\* has started is taken only by a step that returns from Running::next.
C30_NoSignalLostAfterStart ==
    [][/\ (state = "Running" /\ changed /\ ~late /\ ~changed') =>
            (state' = "Running" /\ run_pc = "drain")
       /\ (state = "Running" /\ changed /\ late /\ ~changed') =>
            state' # "Running"]_vars

----------------------------------------------------------------------------
(* The process from main on, and a Kubelet of either provider *)

\* main of krustlet-stackable.rs at its first statement that can fail.
MainInit ==
    /\ SupervisorInit
    /\ PodsInit
    /\ main_pc = "client"
    /\ provider = "stackable"
    /\ found \in SUBSET CrdSet
    /\ provider_new = NoResult
    /\ PodStart(HappyPod, InitialState, FALSE)

MainNext ==
    \/ \E res \in Results : ClientNew(res)
    \/ ProviderNew
    \/ KubeletNew
    \/ ShutdownNext

MainSpec == MainInit /\ [][MainNext]_vars

\* Kubelet<P>::start for each provider P of the repository.
NodeInit ==
    /\ SupervisorInit
    /\ PodsInit
    /\ \E p \in Providers : Constructed(p)
    /\ PodStart(HappyPod, InitialState, FALSE)

NodeSpec == NodeInit /\ [][ShutdownNext]_vars

\* Nothing of Kubelet::start has run.
NotStarted ==
    /\ ~node_created
    /\ node = NoNode
    /\ exited = {}
    /\ svc_pc = "select"
    /\ nu_pc = "update"
    /\ hs_pc = "poll"
    /\ core_res = "pending"
    /\ drains = 0

\* C26: StackableProvider::new returns Ok iff the look-up of every CRD of
\* CRDS succeeds, and otherwise CrdMissing with exactly the CRDs whose
\* look-up failed, each once; after a failed construction main has panicked,
\* and as long as main has not reached kubelet.start() no node is created
\* and no task of the supervisor has run.
C26_MissingCrdsAreFatal ==
    /\ provider_new.kind # "none" =>
          (provider_new.kind = "Ok" <=> CrdSet \subseteq found)
    /\ provider_new.kind = "CrdMissing" =>
          /\ {provider_new.missing_crds[i] : i \in DOMAIN provider_new.missing_crds}
                = CrdSet \ found
          /\ Len(provider_new.missing_crds) = Cardinality(CrdSet \ found)
          /\ main_pc = "panicked"
    /\ main_pc # "start" => NotStarted

C26_Witness ==
    /\ main_pc = "panicked"
    /\ provider_new.kind = "CrdMissing"
    /\ provider_new.missing_crds = CRDS
    /\ NotStarted

\* C27: the node a provider customizes carries the taints
\* kubernetes.io/arch=<ARCH> with the effects NoSchedule and NoExecute, and
\* its architecture is ARCH too, for the Stackable and the waSCC provider.
C27_NodeCarriesArch ==
    node_created =>
        /\ node.taints = {Taint("NoSchedule", "kubernetes.io/arch", ARCH(provider)),
                          Taint("NoExecute", "kubernetes.io/arch", ARCH(provider))}
        /\ node.architecture = ARCH(provider)

----------------------------------------------------------------------------
(* The PodStates of the providers, their asynchronous drop, and            *)
(* Provider::logs                                                          *)

\* WasccProvider::initialize_pod_state: a PodState for key k, holding a clone
\* of the shared maps.
InitializePodState(k) ==
    /\ pod_pc[k] = "none"
    /\ drops[k] < MaxDrops
    /\ pod_pc' = [pod_pc EXCEPT ![k] = "live"]
    /\ UNCHANGED <<port_map, handles, drops, dropped, logVars>>
    /\ UNCHANGED <<supervisorVars, informerVars, queueVars, mainVars, node, providerVars,
                   unitVars>>

\* A state of pod k takes the free port p for one of its containers.
AssignPort(k, p) ==
    /\ pod_pc[k] = "live"
    /\ port_map[p] = NoKey
    /\ port_map' = [port_map EXCEPT ![p] = k]
    /\ UNCHANGED <<handles, pod_pc, drops, dropped, logVars>>
    /\ UNCHANGED <<supervisorVars, informerVars, queueVars, mainVars, node, providerVars,
                   unitVars>>

\* A state of pod k stores the Handle of the started pod.
InsertHandle(k) ==
    /\ pod_pc[k] = "live"
    /\ k \notin handles
    /\ handles' = handles \cup {k}
    /\ UNCHANGED <<port_map, pod_pc, drops, dropped, logVars>>
    /\ UNCHANGED <<supervisorVars, informerVars, queueVars, mainVars, node, providerVars,
                   unitVars>>

\* A clean-up that releases one port of the key only.
ports_to_remove_first(m, k) ==
    IF \E p \in DOMAIN m : m[p] = k
    THEN {CHOOSE p \in DOMAIN m : m[p] = k /\ \A q \in DOMAIN m : m[q] = k => p <= q}
    ELSE {}

\* async_drop, lib.rs 241-244: the ports whose value is the key.
ports_to_remove(m, k) == {p \in DOMAIN m : m[p] = k}

\* async_drop, lib.rs 251-253: the map with these ports removed.
RemovePorts(m, k) ==
    [p \in DOMAIN m |-> IF p \in ports_to_remove(m, k) THEN NoKey ELSE m[p]]

\* A clean-up that empties the map of Handles.
RemoveAllHandles(h, k) == {}

\* async_drop, lib.rs 257: handles.remove(&self.key).
RemoveHandle(h, k) == h \ {k}

\* The first block of async_drop, under the lock of port_map.
AsyncDropPorts(k) ==
    /\ pod_pc[k] = "live"
    /\ port_map' = RemovePorts(port_map, k)
    /\ pod_pc' = [pod_pc EXCEPT ![k] = "handles"]
    /\ UNCHANGED <<handles, drops, dropped, logVars>>
    /\ UNCHANGED <<supervisorVars, informerVars, queueVars, mainVars, node, providerVars,
                   unitVars>>

\* The second block of async_drop, under the write lock of handles.
AsyncDropHandle(k) ==
    /\ pod_pc[k] = "handles"
    /\ handles' = RemoveHandle(handles, k)
    /\ pod_pc' = [pod_pc EXCEPT ![k] = "none"]
    /\ drops' = [drops EXCEPT ![k] = @ + 1]
    /\ UNCHANGED <<port_map, dropped, logVars>>
    /\ UNCHANGED <<supervisorVars, informerVars, queueVars, mainVars, node, providerVars,
                   unitVars>>

\* async_drop of the Stackable PodState, whose body is empty; the runner
\* calls it when the run of the pod has completed.
StackableAsyncDrop ==
    /\ complete # "none"
    /\ ~dropped
    /\ dropped' = TRUE
    /\ UNCHANGED <<wasccVars, logVars>>
    /\ UNCHANGED <<supervisorVars, informerVars, queueVars, mainVars, node, providerVars,
                   unitVars>>

\* A log request that takes the Handle out of the map.
HandlesAfterLogsTaken(h, k) == h \ {k}

\* WasccProvider::logs: get_mut borrows the Handle of the key and leaves the
\* map as it is.
HandlesAfterLogs(h, k) == h

\* A logs that asks for the output without looking for the Handle.
WasccLogsResultUnchecked(h, k, out) == out

\* WasccProvider::logs: PodNotFound if the key has no Handle, else what
\* Handle::output returns.
WasccLogsResult(h, k, out) == IF k \in h THEN out ELSE "PodNotFound"

WasccLogs(k) ==
    /\ log_requests < MaxLogs
    /\ log_requests' = log_requests + 1
    /\ \E out \in Results :
        last_log' = [key |-> k, res |-> WasccLogsResult(handles, k, out)]
    /\ handles' = HandlesAfterLogs(handles, k)
    /\ UNCHANGED <<port_map, pod_pc, drops, dropped>>
    /\ UNCHANGED <<supervisorVars, informerVars, queueVars, mainVars, node, providerVars,
                   unitVars>>

\* StackableProvider::logs returns Ok(()) and does nothing else.
StackableLogs ==
    /\ log_requests < MaxLogs
    /\ log_requests' = log_requests + 1
    /\ \E k \in WasccKeys : last_log' = [key |-> k, res |-> "ok"]
    /\ UNCHANGED <<wasccVars, dropped>>
    /\ UNCHANGED <<supervisorVars, informerVars, queueVars, mainVars, node, providerVars,
                   unitVars>>

WasccNext ==
    \/ \E k \in WasccKeys : InitializePodState(k)
    \/ \E k \in WasccKeys, p \in Ports : AssignPort(k, p)
    \/ \E k \in WasccKeys : InsertHandle(k)
    \/ \E k \in WasccKeys : AsyncDropPorts(k)
    \/ \E k \in WasccKeys : AsyncDropHandle(k)
    \/ \E k \in WasccKeys : WasccLogs(k)

\* The pods of a Kubelet of either provider, with log requests at any time.
PodsSpecInit ==
    /\ SupervisorInit
    /\ PodsInit
    /\ \E p \in Providers : Constructed(p)
    /\ \E p \in Pods, inst \in BOOLEAN :
          /\ PodStart(p, InitialState, inst)
          /\ provider = "wascc" => (p = HappyPod /\ ~inst)

PodsNext ==
    \/ provider = "stackable" /\ ProviderNext
    \/ provider = "stackable" /\ StackableLogs
    \/ provider = "stackable" /\ StackableAsyncDrop
    \/ provider = "wascc" /\ WasccNext

PodsSpec == PodsSpecInit /\ [][PodsNext]_vars

\* C28: a call of Provider::logs, of either provider and at any point of the
\* pod's run, leaves pod_changed, the pod's state machine (its current state,
\* the transition it returned, its completion) and its PodState (for waSCC,
\* the shared port_map and handles) as they are.
C28_LogsLeaveRunnerAlone ==
    [][log_requests' # log_requests =>
          /\ UNCHANGED providerVars
          /\ UNCHANGED <<wasccVars, dropped>>]_vars

C28_Witness ==
    /\ provider = "stackable"
    /\ log_requests > 0
    /\ state = "Running"
    /\ run_pc = "wait"
    /\ child = "running"

\* The key owns no port and no Handle.
OwnsNothing(k) == ports_to_remove(port_map, k) = {} /\ k \notin handles

\* C29: each block of the waSCC async_drop for a key leaves the shared maps
\* as one more run of it would (running it twice is running it once), an
\* async_drop for a key that owns no port and no Handle changes neither map,
\* and the Stackable async_drop changes nothing.
C29_AsyncDropIdempotent ==
    [][/\ \A k \in WasccKeys :
            /\ (pod_pc[k] = "live" /\ pod_pc'[k] = "handles") =>
                  /\ port_map' = RemovePorts(port_map, k)
                  /\ RemovePorts(port_map', k) = port_map'
                  /\ handles' = handles
            /\ (pod_pc[k] = "handles" /\ pod_pc'[k] = "none") =>
                  /\ handles' = RemoveHandle(handles, k)
                  /\ RemoveHandle(handles', k) = handles'
                  /\ port_map' = port_map
            /\ (OwnsNothing(k) /\ pod_pc[k] # "none" /\ pod_pc'[k] # pod_pc[k]) =>
                  UNCHANGED <<port_map, handles>>
       /\ dropped' # dropped =>
            (UNCHANGED providerVars /\ UNCHANGED <<wasccVars, logVars>>)]_vars

C29_Witness ==
    /\ drops["A"] = 2
    /\ pod_pc["A"] = "none"
    /\ OwnsNothing("A")
    /\ port_map[1] = "B"

----------------------------------------------------------------------------

\* C32: node::drain is called only in a turn of start_signal_handler that
\* reads the flag set, it is the first and only call of the run, and a
\* handler that has called it never polls the flag again; while the flag is
\* false no drain has been called.
C32_DrainOnlyOnceAfterFlag ==
    [][/\ drains' # drains =>
            /\ signal
            /\ hs_pc = "poll" /\ hs_pc' = "drain"
            /\ drains = 0 /\ drains' = 1
       /\ hs_pc \in {"drain", "done"} => hs_pc' \in {"drain", "done"}
       /\ ~signal' => (drains' = 0 /\ hs_pc' = "poll")]_vars

\* The handler has drained once and returned, after polling with the flag
\* set.
C32_Witness ==
    /\ signal
    /\ drains = 1
    /\ hs_pc = "done"
    /\ core_res = "ok"

\* Running::next returns in this step.
RunningReturns == state = "Running" /\ state' # "Running"

\* C33: Running::next returns only Next(Installing), in a turn of its wait
\* loop that receives a pod_changed signal, or Next(Failed) with the message
\* "process died", in a turn without signal in which the child is not
\* running; it returns neither Stopping nor Running nor Complete, and a
\* received signal is acted on whatever the child's state.
C33_RunningHasTwoOutcomes ==
    [][RunningReturns =>
          /\ run_pc = "wait"
          /\ trans'.from = "Running"
          /\ trans'.kind = "Next"
          /\ trans'.to \in {"Installing", "Failed"}
          /\ trans'.to = "Installing" => (changed /\ ~changed')
          /\ trans'.to = "Failed" =>
                /\ child # "running"
                /\ changed' = changed
                /\ ~terminating => data' = ProcessDied
          /\ complete' = "none"]_vars

\* The signal has won a turn in which the child had already exited.
C33_Witness ==
    /\ trans = [from |-> "Running", kind |-> "Next", to |-> "Installing"]
    /\ state = "Installing"
    /\ child = "exited"

\* Terminated is a declared successor of no state of states/.
TerminatedUndeclared == \A s \in SourceStates : TerminatedState \notin TransitionTo(s)

\* Terminated is entered only by the redirect of a pending termination.
TerminatedOnlyByRedirect ==
    (state # TerminatedState /\ state' = TerminatedState) =>
        (terminating /\ trans'.kind = "Next" /\ trans'.to # TerminatedState)

\* C34, as stated: the run completes only by Terminated::next, with
\* Complete(Ok), no state returns Complete(Err), and Terminated is entered
\* only by the redirect.
C34_OnlyTerminatedCompletes ==
    [][/\ complete' # complete =>
            (state = TerminatedState /\ complete' = "ok")
       /\ TerminatedUndeclared
       /\ TerminatedOnlyByRedirect]_vars

\* C34, amended: Complete(Ok) is returned by Terminated::next only, and
\* Terminated returns nothing else; Complete(Err) is returned by
\* CreatingConfig::next only, for a pod that has not exactly one container;
\* Terminated is a declared successor of no state and is entered only by
\* the redirect of a pending termination.
C34_CompleteOkOnlyFromTerminated ==
    [][/\ complete' # complete =>
            /\ trans'.kind = "Complete"
            /\ complete' = "ok" => state = TerminatedState
            /\ state = TerminatedState => complete' = "ok"
            /\ complete' = "err" => (state = "CreatingConfig" /\ pod.containers # 1)
       /\ TerminatedUndeclared
       /\ TerminatedOnlyByRedirect]_vars

\* The run has been redirected to Terminated, which has completed it.
C34_Witness ==
    /\ terminating
    /\ state = TerminatedState
    /\ complete = "ok"
    /\ trans = [from |-> "Terminated", kind |-> "Complete", to |-> "ok"]

\* Installing::next returns in this step.
InstallingReturns == state = "Installing" /\ state' # "Installing"

\* C35: Installing::next calls install_package exactly when the package's
\* directory does not exist, an existing directory is left as it is, and
\* whether the package was there, was installed or failed to install, the
\* transition returned is Next(CreatingConfig), never SetupFailed.
C35_InstallingAlwaysConfigures ==
    [][InstallingReturns =>
          /\ trans' = [from |-> "Installing", kind |-> "Next", to |-> "CreatingConfig"]
          /\ last_install' \in {"skipped", "ok", "err"}
          /\ last_install' = "skipped" <=> installed
          /\ installed => installed'
          /\ last_install' = "ok" => installed'
          /\ complete' = "none"]_vars

\* install_package has failed, nothing is installed, and the pod's
\* configuration is created all the same.
C35_Witness ==
    /\ last_install = "err"
    /\ ~installed
    /\ state = "CreatingConfig"
    /\ trans.from = "Installing"

----------------------------------------------------------------------------
(* find_repository applied to every list of repositories *)

FindInit ==
    /\ SupervisorInit
    /\ Constructed("stackable")
    /\ PodsIdle
    /\ HostIdle
    /\ PodStart(HappyPod, InitialState, FALSE)
    /\ repos \in RepoLists(MaxRepos)
    /\ reference \in 0..(MaxRepos + 1)
    /\ list_ok \in BOOLEAN
    /\ reference # 0 => list_ok
    /\ package \in Packages
    /\ find_pc = "call"
    /\ find_result = NoFindResult

FindSpec == FindInit /\ [][FindRepository]_vars

\* Repository i converts and answers, and does not have the package.
Lacks(i) == repos[i].url = "ok" /\ repos[i].metadata = "ok"
            /\ ~\E v \in Versions : /\ package.product \in DOMAIN repos[i].parcels
                                    /\ v = package.version
                                    /\ v \in repos[i].parcels[package.product]

\* Repository i converts and answers, and has the package's product with the
\* package's version.
Provides(i) == repos[i].url = "ok" /\ repos[i].metadata = "ok" /\ ~Lacks(i)

\* Converting or querying repository i fails.
Fails(i) == repos[i].url # "ok" \/ repos[i].metadata # "ok"

----------------------------------------------------------------------------
(* wascc_run for every actor and list of volumes, and stop of its handle *)

HostInit ==
    /\ SupervisorInit
    /\ Constructed("wascc")
    /\ PodsIdle
    /\ FindIdle
    /\ PodStart(HappyPod, InitialState, FALSE)
    /\ actor \in Actors
    /\ w_volumes \in VolumeLists
    /\ w_pc = "load"
    /\ w_i = 1
    /\ capabilities = <<>>
    /\ host = EmptyHost
    /\ w_result = "none"
    /\ handle = NoHandle
    /\ stops = 0
    /\ stop_result = NoStop

HostNext ==
    \/ RunLoad
    \/ RunAddFs
    \/ RunAddActor
    \/ RunSetBinding
    \/ Stop

HostSpec == HostInit /\ [][HostNext]_vars

\* C38: a stop that returns an error leaves the handle as it was, with all
\* its volume bindings, so that the next stop attempts the same removals.
C38_FailedStopKeepsHandle ==
    [][(/\ stops' # stops
        /\ stop_result'.res = "err"
        /\ FS_CAPABILITY \in handle.capabilities
        /\ handle.volumes # <<>>) => handle' = handle]_vars

\* The bindings the actor's declared capabilities call for: logging, HTTP,
\* and the filesystem once per volume.
DeclaredBindings ==
    {Capability(n, NoBinding) : n \in actor.caps \cap {LOG_CAPABILITY, HTTP_CAPABILITY}}
    \cup {Capability(FS_CAPABILITY, w_volumes[j]) :
             j \in {i \in DOMAIN w_volumes : FS_CAPABILITY \in actor.caps}}

\* C40: wascc_run sets a binding only when the actor is in the host, and only
\* one the actor's declared capabilities call for; a successful run has set
\* all of these; bytes that do not load leave the host as it was; and the
\* handle is returned exactly when the run returns Ok.
C40_BindingsAfterActor ==
    [][/\ host'.bindings # host.bindings =>
            /\ ActorKey \in host.actors
            /\ host'.bindings \subseteq DeclaredBindings
       /\ (w_result' = "Ok" /\ w_result = "none") => host'.bindings = DeclaredBindings
       /\ ~actor.loads => host' = host
       /\ w_result' = "Err" => handle' = NoHandle
       /\ (w_result' = "Ok" /\ stops' = 0) =>
            handle' = [key |-> ActorKey, volumes |-> w_volumes, capabilities |-> actor.caps]
       /\ w_result' = "none" => handle' = NoHandle]_vars

\* A run with all three capabilities and two volumes has returned its handle.
C40_Witness ==
    /\ w_result = "Ok"
    /\ stops = 0
    /\ actor.caps = CapabilityNames
    /\ Len(w_volumes) = 2
    /\ Cardinality(host.bindings) = 4
    /\ host.actors = {ActorKey}

----------------------------------------------------------------------------

\* C37: the first block of the waSCC async_drop for key k leaves no port
\* mapped to k and every other port as it was, the second leaves no Handle
\* of k and every other Handle as it was, and when the drop has completed
\* neither map has an entry of k, whatever the other pods' drops have done
\* in between.
C37_AsyncDropRemovesOwnEntries ==
    [][\A k \in WasccKeys :
          /\ (pod_pc[k] = "live" /\ pod_pc'[k] = "handles") =>
                /\ \A p \in Ports : port_map'[p] # k
                /\ \A p \in Ports : port_map[p] # k => port_map'[p] = port_map[p]
                /\ handles' = handles
          /\ (pod_pc[k] = "handles" /\ pod_pc'[k] = "none") =>
                /\ k \notin handles'
                /\ handles' \ {k} = handles \ {k}
                /\ \A p \in Ports : port_map'[p] # k
                /\ port_map' = port_map]_vars

\* The drop of A has completed between the two blocks of the drop of B,
\* and B's Handle is still there.
C37_Witness ==
    /\ drops["A"] = 1
    /\ pod_pc["A"] = "none"
    /\ pod_pc["B"] = "handles"
    /\ handles = {"B"}
    /\ \A p \in Ports : port_map[p] = NoKey

\* C39: WasccProvider::logs returns PodNotFound exactly when handles has no
\* entry for the pod, which is so whenever the pod's PodState has been
\* dropped, and a call that fails so leaves handles as it was; an entry is
\* either in the map or not, a call sees no state in between.
C39_LogsFindsHandleOrNot ==
    [][(log_requests' # log_requests /\ provider = "wascc") =>
          LET k == last_log'.key IN
          /\ last_log'.res = "PodNotFound" <=> k \notin handles
          /\ last_log'.res = "PodNotFound" => handles' = handles
          /\ (pod_pc[k] = "none" /\ drops[k] > 0) => last_log'.res = "PodNotFound"]_vars

\* A log request for a pod whose async_drop has completed has failed.
C39_Witness ==
    /\ provider = "wascc"
    /\ last_log = [key |-> "A", res |-> "PodNotFound"]
    /\ drops["A"] = 1
    /\ pod_pc["A"] = "none"
    /\ handles = {"B"}

====
